---- MODULE Spec2Model ----
(***************************************************************************)
(* Model of the timetable generator: Backend/solver.py (generate_schedule) *)
(* and the parts of Backend/app.py that feed it and persist its result     *)
(* (get_all_solver_data, run_real_solver).                                  *)
(*                                                                         *)
(* A timeslot is the pair <<day, slot>>.  An assignment variable is keyed  *)
(* by <<course id, faculty id, room id, timeslot>>, as in solver.py.       *)
(* Python's None and the empty list are both falsy in `if x:`; the two     *)
(* optional arguments of generate_schedule are sequences here, and <<>>    *)
(* stands for both None and the empty list.                                *)
(***************************************************************************)
EXTENDS Integers, Sequences, FiniteSets, TLC

VARIABLES
    pc,                    \* position of the program
    caller,                \* "direct" (generate_schedule called), "run_real_solver"
    db,                    \* the tables get_all_solver_data reads
    TIMESLOT_ID_MAP,       \* app.py timeslot_id_map: keys in insertion order, val: raw id -> <<day, slot>>
    data,                  \* the data package handed to generate_schedule
    temporary_constraints, \* sequence of locks [faculty_id, day, slot]
    previous_schedule,     \* sequence of prior entries
    schedule,              \* solver.py `schedule`: the set of keys that have a variable
    status,                \* terminal status of solver.Solve
    values,                \* the keys whose variable the solver set to 1
    ret,                   \* "unset", "None" or "list": what generate_schedule returned
    results,               \* the returned list when ret = "list"
    timetable,             \* rows inserted into the timetable table
    response               \* HTTP status of run_real_solver, 0 while running

vars == <<pc, caller, db, TIMESLOT_ID_MAP, data, temporary_constraints,
          previous_schedule, schedule, status, values, ret, results,
          timetable, response>>

(***************************************************************************)
(* Bounds of the model.                                                    *)
(***************************************************************************)
MaxElections == 2      \* longest STUDENT_ELECTIONS list
MaxLocks     == 1      \* longest temporary_constraints list
MaxRows      == 3      \* most rows of the timeslot table

Range(s) == {s[i] : i \in DOMAIN s}

(***************************************************************************)
(* solver.py, step 1: the eligibility filter and the variable set.         *)
(***************************************************************************)
Key(course, faculty, room, timeslot) ==
    <<course.id, faculty.id, room.id, timeslot>>

\* mutant: `>` written for `>=` in the capacity test
EligibleStrictCapacity(course, faculty, room, timeslot) ==
    /\ faculty.id \in course.preferred_faculty
    /\ timeslot \in faculty.availability
    /\ room.capacity > course.enrollment
    /\ course.type = room.type

Eligible(course, faculty, room, timeslot) ==
    /\ faculty.id \in course.preferred_faculty
    /\ timeslot \in faculty.availability
    /\ room.capacity >= course.enrollment
    /\ course.type = room.type

DefineVariablesOf(d) ==
    {Key(d.COURSES[c], d.FACULTY[f], d.ROOMS[r], d.ALL_TIMESLOTS[t]) :
        <<c, f, r, t>> \in
            {q \in (DOMAIN d.COURSES) \X (DOMAIN d.FACULTY) \X
                   (DOMAIN d.ROOMS) \X (DOMAIN d.ALL_TIMESLOTS) :
                Eligible(d.COURSES[q[1]], d.FACULTY[q[2]],
                         d.ROOMS[q[3]], d.ALL_TIMESLOTS[q[4]])}}

(***************************************************************************)
(* solver.py, step 2: the hard constraints.  x is the set of keys whose    *)
(* variable is 1; every sum runs over the code's loops, so a loop value    *)
(* met twice counts twice.                                                 *)
(***************************************************************************)
CourseSum(d, sched, course, x) ==
    Cardinality({q \in (DOMAIN d.FACULTY) \X (DOMAIN d.ROOMS) \X (DOMAIN d.ALL_TIMESLOTS) :
        LET k == <<course.id, d.FACULTY[q[1]].id, d.ROOMS[q[2]].id, d.ALL_TIMESLOTS[q[3]]>>
        IN  k \in sched /\ k \in x})

\* mutant: `<= 1` written for `== 1`
CourseUniquenessAtMostOne(d, sched, course, x) == CourseSum(d, sched, course, x) <= 1

CourseUniqueness(d, sched, course, x) == CourseSum(d, sched, course, x) = 1

\* mutant: the sum misses `for room in ROOMS` and reads the `room` the loops of
\* step 1 left behind, the last one of ROOMS
FacultySumLastRoom(d, sched, faculty, timeslot, x) ==
    Cardinality({c \in DOMAIN d.COURSES :
        LET k == <<d.COURSES[c].id, faculty.id, d.ROOMS[Len(d.ROOMS)].id, timeslot>>
        IN  k \in sched /\ k \in x})

FacultySum(d, sched, faculty, timeslot, x) ==
    Cardinality({q \in (DOMAIN d.COURSES) \X (DOMAIN d.ROOMS) :
        LET k == <<d.COURSES[q[1]].id, faculty.id, d.ROOMS[q[2]].id, timeslot>>
        IN  k \in sched /\ k \in x})

FacultyConflict(d, sched, x) ==
    \A f \in DOMAIN d.FACULTY : \A t \in DOMAIN d.ALL_TIMESLOTS :
        FacultySum(d, sched, d.FACULTY[f], d.ALL_TIMESLOTS[t], x) <= 1

RoomSum(d, sched, room, timeslot, x) ==
    Cardinality({q \in (DOMAIN d.COURSES) \X (DOMAIN d.FACULTY) :
        LET k == <<d.COURSES[q[1]].id, d.FACULTY[q[2]].id, room.id, timeslot>>
        IN  k \in sched /\ k \in x})

RoomConflict(d, sched, x) ==
    \A r \in DOMAIN d.ROOMS : \A t \in DOMAIN d.ALL_TIMESLOTS :
        RoomSum(d, sched, d.ROOMS[r], d.ALL_TIMESLOTS[t], x) <= 1

\* student_enrollments: student id -> the list of course ids of its records
StudentIds(d) == {e.student_id : e \in Range(d.STUDENT_ELECTIONS)}

RECURSIVE EnrolledFrom(_, _, _)
EnrolledFrom(elections, student_id, i) ==
    IF i > Len(elections) THEN <<>>
    ELSE IF elections[i].student_id = student_id
         THEN <<elections[i].course_id>> \o EnrolledFrom(elections, student_id, i + 1)
         ELSE EnrolledFrom(elections, student_id, i + 1)

\* mutant: the course id is assigned to the student, not appended to its list
student_enrollmentsAssigned(d) ==
    [s \in StudentIds(d) |->
        LET all == EnrolledFrom(d.STUDENT_ELECTIONS, s, 1) IN <<all[Len(all)]>>]

student_enrollments(d) ==
    [s \in StudentIds(d) |-> EnrolledFrom(d.STUDENT_ELECTIONS, s, 1)]

StudentSum(d, sched, enrolled_courses, timeslot, x) ==
    Cardinality({q \in (DOMAIN enrolled_courses) \X (DOMAIN d.FACULTY) \X (DOMAIN d.ROOMS) :
        LET k == <<enrolled_courses[q[1]], d.FACULTY[q[2]].id, d.ROOMS[q[3]].id, timeslot>>
        IN  k \in sched /\ k \in x})

StudentConflict(d, sched, x) ==
    \A s \in StudentIds(d) : \A t \in DOMAIN d.ALL_TIMESLOTS :
        StudentSum(d, sched, student_enrollments(d)[s], d.ALL_TIMESLOTS[t], x) <= 1

\* mutant: the timeslot is looked up as (slot, day)
LockedKeysSwapped(d, sched, constraint) ==
    {k \in sched :
        /\ k[2] = constraint.faculty_id
        /\ k[4] = <<constraint.slot, constraint.day>>}

LockedKeys(d, sched, constraint) ==
    {k \in sched :
        /\ k[2] = constraint.faculty_id
        /\ k[4] = <<constraint.day, constraint.slot>>
        /\ \E c \in DOMAIN d.COURSES : d.COURSES[c].id = k[1]
        /\ \E r \in DOMAIN d.ROOMS : d.ROOMS[r].id = k[3]}

TemporaryConstraints(d, sched, locks, x) ==
    \A i \in DOMAIN locks : LockedKeys(d, sched, locks[i]) \cap x = {}

HardConstraints(d, sched, locks, x) ==
    /\ \A c \in DOMAIN d.COURSES : CourseUniqueness(d, sched, d.COURSES[c], x)
    /\ FacultyConflict(d, sched, x)
    /\ RoomConflict(d, sched, x)
    /\ StudentConflict(d, sched, x)
    /\ TemporaryConstraints(d, sched, locks, x)

(***************************************************************************)
(* The assignments CP-SAT may return: the subsets of `schedule` meeting    *)
(* every hard constraint.  Every key carries the id of a course of         *)
(* COURSES, so a subset is a union of one set of keys per course; the      *)
(* per-course sets are filtered by that course's uniqueness constraint     *)
(* first, which computes the same set as filtering every subset.           *)
(***************************************************************************)
CourseChoices(d, sched, course) ==
    {s \in SUBSET {k \in sched : k[1] = course.id} :
        CourseUniqueness(d, sched, course, s)}

RECURSIVE Combine(_, _, _)
Combine(d, sched, i) ==
    IF i = 0 THEN {{}}
    ELSE {a \cup b : a \in Combine(d, sched, i - 1),
                     b \in CourseChoices(d, sched, d.COURSES[i])}

Solutions(d, sched, locks) ==
    {x \in Combine(d, sched, Len(d.COURSES)) : HardConstraints(d, sched, locks, x)}

(***************************************************************************)
(* solver.py, soft constraint: old_schedule_map and the reward variables.  *)
(***************************************************************************)
LastIndexOf(prev, course_id) ==
    CHOOSE i \in DOMAIN prev :
        /\ prev[i].course.id = course_id
        /\ \A j \in DOMAIN prev : prev[j].course.id = course_id => j <= i

old_schedule_map(prev) ==
    [cid \in {prev[i].course.id : i \in DOMAIN prev} |->
        LET item == prev[LastIndexOf(prev, cid)]
        IN  <<item.faculty.id, item.room.id, <<item.day, item.slot>>>>]

\* mutant: the objective is never set
OptimalNoObjective(d, sched, locks, prev) == Solutions(d, sched, locks)

\* Maximize(sum(reward_points)): the assignments of the largest reward sum
Optimal(d, sched, locks, prev) ==
    LET sols == Solutions(d, sched, locks)
    IN  IF prev = <<>> \/ sols = {} THEN sols
        ELSE LET old     == old_schedule_map(prev)
                 oldkey  == [c \in DOMAIN d.COURSES |->
                               IF d.COURSES[c].id \in DOMAIN old
                               THEN <<<<d.COURSES[c].id, old[d.COURSES[c].id][1],
                                       old[d.COURSES[c].id][2], old[d.COURSES[c].id][3]>>>>
                               ELSE <<>>]
                 rewards == {c \in DOMAIN d.COURSES :
                               oldkey[c] # <<>> /\ oldkey[c][1] \in sched}
                 sum(x)  == Cardinality({c \in rewards : oldkey[c][1] \in x})
                 sums    == {sum(x) : x \in sols}
                 best    == CHOOSE m \in sums : \A n \in sums : n <= m
             IN  {x \in sols : sum(x) = best}

(***************************************************************************)
(* solver.py, step 3: decoding the chosen variables into the result list.  *)
(***************************************************************************)
RecordOfId(seq, id) == seq[CHOOSE i \in DOMAIN seq : seq[i].id = id /\
                               \A j \in DOMAIN seq : seq[j].id = id => j <= i]

Entry(d, course, faculty, room, timeslot) ==
    [day     |-> timeslot[1],
     slot    |-> timeslot[2],
     course  |-> RecordOfId(d.COURSES, course.id),
     faculty |-> RecordOfId(d.FACULTY, faculty.id),
     room    |-> RecordOfId(d.ROOMS, room.id)]

\* the four nested loops of the decoder, flattened: n counts their iterations
RECURSIVE DecodeFrom(_, _, _, _)
DecodeFrom(d, sched, x, n) ==
    LET nC == Len(d.COURSES)
        nF == Len(d.FACULTY)
        nR == Len(d.ROOMS)
        nT == Len(d.ALL_TIMESLOTS)
    IN  IF n >= nT * nC * nF * nR THEN <<>>
        ELSE LET r == (n % nR) + 1
                 f == ((n \div nR) % nF) + 1
                 c == ((n \div (nR * nF)) % nC) + 1
                 t == (n \div (nR * nF * nC)) + 1
                 k == Key(d.COURSES[c], d.FACULTY[f], d.ROOMS[r], d.ALL_TIMESLOTS[t])
             IN  (IF k \in sched /\ k \in x
                  THEN <<Entry(d, d.COURSES[c], d.FACULTY[f], d.ROOMS[r],
                               d.ALL_TIMESLOTS[t])>>
                  ELSE <<>>) \o DecodeFrom(d, sched, x, n + 1)

SortKeyLeq(a, b) == a.day < b.day \/ (a.day = b.day /\ a.slot <= b.slot)

\* list.sort is stable: an entry goes after the entries whose key is not larger
RECURSIVE InsertSorted(_, _)
InsertSorted(s, e) ==
    IF s = <<>> THEN <<e>>
    ELSE IF SortKeyLeq(s[Len(s)], e) THEN Append(s, e)
         ELSE Append(InsertSorted(SubSeq(s, 1, Len(s) - 1), e), s[Len(s)])

RECURSIVE SortByDaySlot(_)
SortByDaySlot(s) ==
    IF s = <<>> THEN <<>>
    ELSE InsertSorted(SortByDaySlot(SubSeq(s, 1, Len(s) - 1)), s[Len(s)])

Decode(d, sched, x) == SortByDaySlot(DecodeFrom(d, sched, x, 0))

(***************************************************************************)
(* Inputs.  Ids are the tables' keys, so they are distinct in every list;  *)
(* ALL_TIMESLOTS holds each coordinate once.                               *)
(***************************************************************************)
Types       == {"lecture", "lab"}
Enrollments == {20, 30}
Capacities  == {20, 30}
FacultyIds  == {1, 2}
StudentSet  == {1, 2}
Slots       == <<<<0, 0>>, <<0, 1>>>>

CourseRec(id, type, enrollment, preferred_faculty) ==
    [id |-> id, type |-> type, enrollment |-> enrollment,
     preferred_faculty |-> preferred_faculty]
FacultyRec(id, availability) == [id |-> id, availability |-> availability]
RoomRec(id, capacity, type)  == [id |-> id, capacity |-> capacity, type |-> type]
Election(student_id, course_id) == [student_id |-> student_id, course_id |-> course_id]
Lock(faculty_id, day, slot) == [faculty_id |-> faculty_id, day |-> day, slot |-> slot]

CoursesOf(i) == {CourseRec(i, ty, en, pf) :
                    ty \in Types, en \in Enrollments, pf \in SUBSET FacultyIds}

SeqsUpTo(S, n) == UNION {[1..m -> S] : m \in 0..n}

Package(courses, faculty, rooms, elections, timeslots) ==
    [COURSES |-> courses, FACULTY |-> faculty, ROOMS |-> rooms,
     STUDENT_ELECTIONS |-> elections, ALL_TIMESLOTS |-> timeslots]

\* every course type, enrollment and preference list against every room
EligibilityInputs ==
    {Package(cs, <<FacultyRec(1, av), FacultyRec(2, Range(Slots))>>, rs, <<>>, Slots) :
        cs \in {<<c>> : c \in CoursesOf(1)} \cup
               {<<c1, c2>> : c1 \in CoursesOf(1),
                             c2 \in {c \in CoursesOf(2) : 2 \in c.preferred_faculty}},
        av \in SUBSET Range(Slots),
        rs \in {<<RoomRec(1, cap, ty)>> : cap \in Capacities, ty \in Types} \cup
               {<<RoomRec(1, 30, "lecture"), RoomRec(2, cap, ty)>> :
                    cap \in Capacities, ty \in Types}}

\* two lecture courses that compete for faculty, rooms and timeslots
ConflictBase(rooms) ==
    {Package(<<CourseRec(1, "lecture", 20, p1), CourseRec(2, "lecture", 20, p2)>>,
             <<FacultyRec(1, a1), FacultyRec(2, a2)>>, rs, <<>>, Slots) :
        p1 \in {{1}, {1, 2}}, p2 \in {{1}, {2}, {1, 2}},
        a1 \in {{Slots[1]}, Range(Slots)}, a2 \in {{Slots[2]}, Range(Slots)},
        rs \in rooms}

OneOrTwoRooms == {<<RoomRec(1, 30, "lecture")>>,
                  <<RoomRec(1, 30, "lecture"), RoomRec(2, 20, "lecture")>>}

ElectionLists == SeqsUpTo({Election(s, c) : s \in StudentSet, c \in {1, 2}}, MaxElections)

LocksOf(faculty_ids) ==
    SeqsUpTo({Lock(f, t[1], t[2]) : f \in faculty_ids, t \in Range(Slots)}, MaxLocks)

\* a prior schedule: at most one entry per course, any faculty, room and slot
PriorEntries(d, c) ==
    {<<>>} \cup
    {<<Entry(d, d.COURSES[c], d.FACULTY[f], d.ROOMS[r], d.ALL_TIMESLOTS[t])>> :
        f \in DOMAIN d.FACULTY, r \in DOMAIN d.ROOMS, t \in DOMAIN d.ALL_TIMESLOTS}

PriorSchedules(d) == {p1 \o p2 : p1 \in PriorEntries(d, 1), p2 \in PriorEntries(d, 2)}

Db(course, room, faculty, student_course, timeslot, availability_rows, preference_rows) ==
    [course |-> course, room |-> room, faculty |-> faculty,
     student_course |-> student_course, timeslot |-> timeslot,
     availability_rows |-> availability_rows, preference_rows |-> preference_rows]

EmptyDb == Db(<<>>, <<>>, <<>>, <<>>, <<>>, <<>>, <<>>)

EmptyMap == [keys |-> <<>>, val |-> <<>>]

InitCall(d, locks, prev) ==
    /\ pc = "start"
    /\ caller = "direct"
    /\ db = EmptyDb
    /\ TIMESLOT_ID_MAP = EmptyMap
    /\ data = d
    /\ temporary_constraints = locks
    /\ previous_schedule = prev
    /\ schedule = {}
    /\ status = "NONE"
    /\ values = {}
    /\ ret = "unset"
    /\ results = <<>>
    /\ timetable = <<>>
    /\ response = 0

TwoRooms == <<RoomRec(1, 30, "lecture"), RoomRec(2, 20, "lecture")>>

\* both faculty always available, both rooms: what a prior schedule is tried on
PriorBase == {d \in ConflictBase({TwoRooms}) :
                \A f \in DOMAIN d.FACULTY : d.FACULTY[f].availability = Range(Slots)}

\* no record, one student in both courses, one enrolment recorded twice
SharedStudent == {<<>>, <<Election(1, 1), Election(1, 2)>>,
                  <<Election(1, 1), Election(1, 1)>>}

Init ==
    \/ \E d \in EligibilityInputs : InitCall(d, <<>>, <<>>)
    \/ \E d \in ConflictBase(OneOrTwoRooms) : \E el \in ElectionLists :
          InitCall([d EXCEPT !.STUDENT_ELECTIONS = el], <<>>, <<>>)
    \/ \E d \in ConflictBase(OneOrTwoRooms) : \E el \in SharedStudent :
       \E locks \in LocksOf(FacultyIds) :
          InitCall([d EXCEPT !.STUDENT_ELECTIONS = el], locks, <<>>)
    \/ \E d \in PriorBase : \E el \in SharedStudent : \E locks \in LocksOf({1}) :
          LET dd == [d EXCEPT !.STUDENT_ELECTIONS = el]
          IN  \E prev \in PriorSchedules(dd) : InitCall(dd, locks, prev)

(***************************************************************************)
(* generate_schedule, one action per step of the function.                 *)
(***************************************************************************)
AppUnchanged == UNCHANGED <<caller, db, TIMESLOT_ID_MAP, timetable, response>>
ArgsUnchanged == UNCHANGED <<data, temporary_constraints, previous_schedule>>

DefineVariables ==
    /\ pc = "start"
    /\ schedule' = DefineVariablesOf(data)
    /\ pc' = "solve"
    /\ UNCHANGED <<status, values, ret, results>>
    /\ ArgsUnchanged /\ AppUnchanged

\* No limit is set on the solver, so it ends OPTIMAL (with or without an
\* objective) or INFEASIBLE; which optimal assignment it returns is its choice.
Solve ==
    /\ pc = "solve"
    /\ LET best == Optimal(data, schedule, temporary_constraints, previous_schedule)
       IN  IF best = {}
           THEN status' = "INFEASIBLE" /\ values' = {}
           ELSE status' = "OPTIMAL" /\ values' \in best
    /\ pc' = "decode"
    /\ UNCHANGED <<schedule, ret, results>>
    /\ ArgsUnchanged /\ AppUnchanged

ReturnResults ==
    /\ pc = "decode"
    /\ status \in {"OPTIMAL", "FEASIBLE"}
    /\ results' = Decode(data, schedule, values)
    /\ ret' = "list"
    /\ pc' = "returned"
    /\ UNCHANGED <<schedule, status, values>>
    /\ ArgsUnchanged /\ AppUnchanged

ReturnNone ==
    /\ pc = "decode"
    /\ status \notin {"OPTIMAL", "FEASIBLE"}
    /\ ret' = "None"
    /\ pc' = "returned"
    /\ UNCHANGED <<schedule, status, values, results>>
    /\ ArgsUnchanged /\ AppUnchanged

Next == DefineVariables \/ Solve \/ ReturnResults \/ ReturnNone

Spec == Init /\ [][Next]_vars

(***************************************************************************)
(* app.py, get_all_solver_data: the timeslot index.                        *)
(***************************************************************************)
day_map == [day \in {"Mon", "Tue", "Wed", "Thu", "Fri"} |->
               CASE day = "Mon" -> 0 [] day = "Tue" -> 1 [] day = "Wed" -> 2
                 [] day = "Thu" -> 3 [] day = "Fri" -> 4]

\* timeslot_id_map[id] = coord: a new key goes last, a present key keeps its place
MapPut(map, id, coord) ==
    IF id \in DOMAIN map.val
    THEN [map EXCEPT !.val[id] = coord]
    ELSE [keys |-> Append(map.keys, id),
          val  |-> [k \in (DOMAIN map.val) \cup {id} |->
                       IF k = id THEN coord ELSE map.val[k]]]

\* mutant: one counter for all days
NextSlotIndexShared(slot_indices, day_num) ==
    [d \in DOMAIN slot_indices |-> slot_indices[d] + 1]

NextSlotIndex(slot_indices, day_num) ==
    [slot_indices EXCEPT ![day_num] = slot_indices[day_num] + 1]

\* the loop over all_timeslots_db, from row i on
RECURSIVE IndexRows(_, _, _, _)
IndexRows(rows, i, map, slot_indices) ==
    IF i > Len(rows) THEN map
    ELSE LET ts == rows[i]
         IN  IF ts.day_of_week \notin DOMAIN day_map
             THEN IndexRows(rows, i + 1, map, slot_indices)
             ELSE LET day_num == day_map[ts.day_of_week]
                      current_slot_index == slot_indices[day_num]
                  IN  IndexRows(rows, i + 1,
                                MapPut(map, ts.id, <<day_num, current_slot_index>>),
                                NextSlotIndex(slot_indices, day_num))

TimeslotIdMap(rows) == IndexRows(rows, 1, EmptyMap, [d \in 0..4 |-> 0])

\* list(timeslot_id_map.values())
MapValues(map) == [i \in DOMAIN map.keys |-> map.val[map.keys[i]]]

\* f['availability']: the mapped timeslots of the faculty's availability rows
AvailabilityOf(rows, map, f_id) ==
    {map.val[rows[i].timeslot_id] :
        i \in {j \in DOMAIN rows : rows[j].faculty_id = f_id /\
                                   rows[j].timeslot_id \in DOMAIN map.val}}

\* c['preferred_faculty']: the faculty of the course's preference rows
PreferredOf(rows, c_id) ==
    {rows[i].faculty_id : i \in {j \in DOMAIN rows : rows[j].course_id = c_id}}

SolverData(database, map) ==
    Package([i \in DOMAIN database.course |->
                CourseRec(database.course[i].id, database.course[i].type,
                          database.course[i].enrollment,
                          PreferredOf(database.preference_rows, database.course[i].id))],
            [i \in DOMAIN database.faculty |->
                FacultyRec(database.faculty[i].id,
                           AvailabilityOf(database.availability_rows, map,
                                          database.faculty[i].id))],
            database.room, database.student_course, MapValues(map))

(***************************************************************************)
(* app.py, run_real_solver: persisting the schedule.                       *)
(***************************************************************************)
\* {v: k for k, v in map.items()}: the last key of a value wins
reverse_timeslot_map(map) ==
    [v \in {map.val[k] : k \in DOMAIN map.val} |->
        map.keys[CHOOSE i \in DOMAIN map.keys :
                    /\ map.val[map.keys[i]] = v
                    /\ \A j \in DOMAIN map.keys : map.val[map.keys[j]] = v => j <= i]]

\* `if timeslot_id:` of an integer id, or of the None that .get returns
Truthy(reverse, timeslot_tuple) ==
    timeslot_tuple \in DOMAIN reverse /\ reverse[timeslot_tuple] # 0

RECURSIVE InsertData(_, _, _)
InsertData(final_schedule, reverse, i) ==
    IF i > Len(final_schedule) THEN <<>>
    ELSE LET item == final_schedule[i]
             timeslot_tuple == <<item.day, item.slot>>
         IN  (IF Truthy(reverse, timeslot_tuple)
              THEN <<[course_id |-> item.course.id, faculty_id |-> item.faculty.id,
                      room_id |-> item.room.id,
                      timeslot_id |-> reverse[timeslot_tuple]]>>
              ELSE <<>>) \o InsertData(final_schedule, reverse, i + 1)

SolverUnchanged == UNCHANGED <<schedule, status, values, ret, results>>

GetAllSolverData ==
    /\ pc = "request"
    /\ TIMESLOT_ID_MAP' = TimeslotIdMap(db.timeslot)
    /\ data' = SolverData(db, TIMESLOT_ID_MAP')
    /\ temporary_constraints' = <<>>
    /\ previous_schedule' = <<>>
    /\ pc' = "start"
    /\ SolverUnchanged
    /\ UNCHANGED <<caller, db, timetable, response>>

\* `if final_schedule:` holds of a non-empty list
SaveTimetable ==
    /\ pc = "returned" /\ caller = "run_real_solver"
    /\ ret = "list" /\ results # <<>>
    /\ timetable' = InsertData(results, reverse_timeslot_map(TIMESLOT_ID_MAP), 1)
    /\ response' = 200
    /\ pc' = "done"
    /\ SolverUnchanged /\ ArgsUnchanged
    /\ UNCHANGED <<caller, db, TIMESLOT_ID_MAP>>

NoSolution ==
    /\ pc = "returned" /\ caller = "run_real_solver"
    /\ ~(ret = "list" /\ results # <<>>)
    /\ response' = 400
    /\ pc' = "done"
    /\ SolverUnchanged /\ ArgsUnchanged
    /\ UNCHANGED <<caller, db, TIMESLOT_ID_MAP, timetable>>

(***************************************************************************)
(* The tables of a request.  The timeslot rows come in the order of the    *)
(* query: FIELD(day_of_week, 'Mon', ..., 'Fri'), which is 0 for any other  *)
(* day, then start_time; their ids are the table's key.                    *)
(***************************************************************************)
RawIds     == 0..MaxRows
DayLabels  == {"Sat", "Mon", "Tue"}
StartTimes == {9, 10}

Field(day) == IF day \in DOMAIN day_map THEN day_map[day] + 1 ELSE 0

OrderedBefore(a, b) ==
    \/ Field(a.day_of_week) < Field(b.day_of_week)
    \/ Field(a.day_of_week) = Field(b.day_of_week) /\ a.start_time <= b.start_time

TimeslotRows ==
    {rows \in SeqsUpTo([id : RawIds, day_of_week : DayLabels, start_time : StartTimes],
                       MaxRows) :
        /\ \A i, j \in DOMAIN rows : i < j =>
              rows[i].id # rows[j].id /\ OrderedBefore(rows[i], rows[j])}

\* faculty 1 is available at every timeslot row
AllAvailable(rows) == [i \in DOMAIN rows |-> [faculty_id |-> 1, timeslot_id |-> rows[i].id]]

CourseTables ==
    {<<>>,
     <<[id |-> 1, type |-> "lecture", enrollment |-> 30]>>,
     <<[id |-> 1, type |-> "lecture", enrollment |-> 30],
       [id |-> 2, type |-> "lecture", enrollment |-> 20]>>}

InitApp ==
    /\ pc = "request"
    /\ caller = "run_real_solver"
    /\ \E rows \in TimeslotRows : \E courses \in CourseTables :
          db = Db(courses, <<RoomRec(1, 30, "lecture")>>, <<[id |-> 1]>>, <<>>, rows,
                  AllAvailable(rows),
                  [i \in DOMAIN courses |-> [faculty_id |-> 1, course_id |-> courses[i].id]])
    /\ TIMESLOT_ID_MAP = EmptyMap
    /\ data = Package(<<>>, <<>>, <<>>, <<>>, <<>>)
    /\ temporary_constraints = <<>>
    /\ previous_schedule = <<>>
    /\ schedule = {}
    /\ status = "NONE"
    /\ values = {}
    /\ ret = "unset"
    /\ results = <<>>
    /\ timetable = <<>>
    /\ response = 0

NextApp == GetAllSolverData \/ SaveTimetable \/ NoSolution \/ Next

AppSpec == InitApp /\ [][NextApp]_vars

(***************************************************************************)
(* Properties.  They are stated on the inputs and the returned list alone, *)
(* not through the operators that model the solver.                        *)
(***************************************************************************)
Finished == pc \in {"returned", "done"}

Timeslot(e) == <<e.day, e.slot>>

\* the four predicates of the eligibility filter, on plain values
FourPredicates(course, faculty, room, timeslot) ==
    /\ \E id \in course.preferred_faculty : id = faculty.id
    /\ \E a \in faculty.availability : a = timeslot
    /\ ~(room.capacity < course.enrollment)
    /\ room.type = course.type

HasEligibleCombination(course) ==
    \E f \in Range(data.FACULTY), r \in Range(data.ROOMS), t \in Range(data.ALL_TIMESLOTS) :
        FourPredicates(course, f, r, t)

EntriesOfCourse(list, course_id) == {i \in DOMAIN list : list[i].course.id = course_id}

\* C1: a returned schedule has exactly one entry per course of COURSES and no
\* entry of any other course; a course without an eligible combination makes
\* the result None.
C1_Coverage ==
    Finished =>
        /\ ret = "list" =>
              /\ \A c \in Range(data.COURSES) :
                    Cardinality(EntriesOfCourse(results, c.id)) = 1
              /\ \A i \in DOMAIN results :
                    \E c \in Range(data.COURSES) : c.id = results[i].course.id
        /\ (\E c \in Range(data.COURSES) : ~HasEligibleCombination(c)) => ret = "None"

C1_Witness ==
    /\ Finished /\ ret = "list" /\ Len(results) = 2
    /\ temporary_constraints # <<>> /\ previous_schedule # <<>>

\* C2: no two distinct entries of a returned schedule share a timeslot and a
\* faculty, or a timeslot and a room.
C2_NoDoubleBooking ==
    (Finished /\ ret = "list") =>
        \A i, j \in DOMAIN results :
            (i # j /\ Timeslot(results[i]) = Timeslot(results[j])) =>
                /\ results[i].faculty.id # results[j].faculty.id
                /\ results[i].room.id # results[j].room.id

\* two courses that could share a faculty and a room are both scheduled
C2_Witness ==
    /\ Finished /\ ret = "list" /\ Len(results) = 2
    /\ \A c \in Range(data.COURSES) : c.preferred_faculty = {1}
    /\ Len(data.ROOMS) = 1
    /\ data.FACULTY[1].availability = Range(Slots)

Enrolled(student_id, course_id) ==
    \E e \in Range(data.STUDENT_ELECTIONS) :
        e.student_id = student_id /\ e.course_id = course_id

\* C3: in a returned schedule no student of STUDENT_ELECTIONS has two entries
\* of courses it is enrolled in at the same timeslot.
C3_StudentExclusivity ==
    (Finished /\ ret = "list") =>
        \A e \in Range(data.STUDENT_ELECTIONS) : \A i, j \in DOMAIN results :
            (/\ i # j
             /\ Timeslot(results[i]) = Timeslot(results[j])
             /\ Enrolled(e.student_id, results[i].course.id))
            => ~Enrolled(e.student_id, results[j].course.id)

\* a student in both courses, which different faculty in different rooms could
\* teach at the same time
C3_Witness ==
    /\ Finished /\ ret = "list" /\ Len(results) = 2
    /\ \E s \in StudentSet : Enrolled(s, 1) /\ Enrolled(s, 2)
    /\ results[1].faculty.id # results[2].faculty.id
    /\ results[1].room.id # results[2].room.id

\* C7: the variables built are exactly the quadruples meeting the four
\* predicates, and every entry of a returned schedule meets them.
C7_Eligibility ==
    /\ pc # "start" =>
          schedule = {<<c.id, f.id, r.id, t>> :
                        <<c, f, r, t>> \in
                            {q \in Range(data.COURSES) \X Range(data.FACULTY) \X
                                   Range(data.ROOMS) \X Range(data.ALL_TIMESLOTS) :
                                FourPredicates(q[1], q[2], q[3], q[4])}}
    /\ (Finished /\ ret = "list") =>
          \A i \in DOMAIN results :
              FourPredicates(results[i].course, results[i].faculty,
                             results[i].room, Timeslot(results[i]))
    /\ (/\ Finished
        /\ Len(data.COURSES) = 1 /\ Len(data.ROOMS) = 1
        /\ data.COURSES[1].enrollment = 30 /\ data.ROOMS[1].capacity = 20)
       => ret = "None"

\* the infeasible scenario: a lecture of 30 whose only room, a lecture room, holds 20
C7_Witness ==
    /\ Finished /\ ret = "None"
    /\ Len(data.COURSES) = 1 /\ Len(data.ROOMS) = 1
    /\ data.COURSES[1].type = "lecture" /\ data.ROOMS[1].type = "lecture"
    /\ data.COURSES[1].enrollment = 30 /\ data.ROOMS[1].capacity = 20
    /\ data.COURSES[1].preferred_faculty = {1}
    /\ data.FACULTY[1].availability # {}

\* C4: a returned schedule has no entry of a locked faculty at the locked
\* timeslot, with or without a prior schedule; a lock covering every eligible
\* combination of some course makes the result None.
C4_LockEnforcement ==
    Finished =>
        \A l \in Range(temporary_constraints) :
            /\ ret = "list" =>
                  \A i \in DOMAIN results :
                      ~(/\ results[i].faculty.id = l.faculty_id
                        /\ results[i].day = l.day
                        /\ results[i].slot = l.slot)
            /\ (\E c \in Range(data.COURSES) :
                    /\ HasEligibleCombination(c)
                    /\ \A f \in Range(data.FACULTY), r \in Range(data.ROOMS),
                          t \in Range(data.ALL_TIMESLOTS) :
                          FourPredicates(c, f, r, t) =>
                              f.id = l.faculty_id /\ t = <<l.day, l.slot>>)
               => ret = "None"

\* a schedule is returned although the prior schedule has the locked faculty at
\* the locked timeslot
C4_Witness ==
    /\ Finished /\ ret = "list" /\ Len(results) = 2
    /\ \E l \in Range(temporary_constraints) : \E p \in Range(previous_schedule) :
          p.faculty.id = l.faculty_id /\ p.day = l.day /\ p.slot = l.slot

\* the (course, faculty, room, day, slot) assignments of a list of entries
Assignments(list) ==
    {<<e.course.id, e.faculty.id, e.room.id, e.day, e.slot>> : e \in Range(list)}

\* a list of entries meets the hard constraints of the data: coverage,
\* eligibility, no faculty or room booked twice, no student in two places
SatisfiesHardConstraints(list) ==
    /\ \A c \in Range(data.COURSES) : Cardinality(EntriesOfCourse(list, c.id)) = 1
    /\ \A i \in DOMAIN list :
          \E c \in Range(data.COURSES), f \in Range(data.FACULTY),
             r \in Range(data.ROOMS), t \in Range(data.ALL_TIMESLOTS) :
              /\ c.id = list[i].course.id /\ f.id = list[i].faculty.id
              /\ r.id = list[i].room.id /\ t = Timeslot(list[i])
              /\ FourPredicates(c, f, r, t)
    /\ \A i, j \in DOMAIN list :
          (i # j /\ Timeslot(list[i]) = Timeslot(list[j])) =>
              /\ list[i].faculty.id # list[j].faculty.id
              /\ list[i].room.id # list[j].room.id
              /\ \A e \in Range(data.STUDENT_ELECTIONS) :
                    ~(Enrolled(e.student_id, list[i].course.id) /\
                      Enrolled(e.student_id, list[j].course.id))

RespectsLocks(list) ==
    \A l \in Range(temporary_constraints) : \A e \in Range(list) :
        ~(e.faculty.id = l.faculty_id /\ e.day = l.day /\ e.slot = l.slot)

\* C5: with no lock and a prior schedule that meets the hard constraints of
\* the same data, the returned schedule has exactly the prior's assignments.
C5_FixedPoint ==
    (/\ Finished
     /\ temporary_constraints = <<>>
     /\ previous_schedule # <<>>
     /\ SatisfiesHardConstraints(previous_schedule))
    => /\ ret = "list"
       /\ Assignments(results) = Assignments(previous_schedule)

\* the courses of a list whose entry is the prior schedule's entry
Kept(list) ==
    {c \in Range(data.COURSES) :
        \E e \in Range(list), p \in Range(previous_schedule) :
            /\ e.course.id = c.id /\ p.course.id = c.id
            /\ e.faculty.id = p.faculty.id /\ e.room.id = p.room.id
            /\ Timeslot(e) = Timeslot(p)}

\* every list with one entry per course, in the order of COURSES
RECURSIVE CandidateSchedules(_)
CandidateSchedules(n) ==
    IF n = 0 THEN {<<>>}
    ELSE {Append(s, [day |-> t[1], slot |-> t[2], course |-> data.COURSES[n],
                     faculty |-> f, room |-> r]) :
            s \in CandidateSchedules(n - 1), f \in Range(data.FACULTY),
            r \in Range(data.ROOMS), t \in Range(data.ALL_TIMESLOTS)}

\* C6: with a prior schedule, no schedule meeting the hard constraints and the
\* locks keeps the prior assignment of more courses than the returned one, and
\* a problem that has a solution still returns a schedule.
C6_StabilityOptimal ==
    (Finished /\ previous_schedule # <<>>) =>
        /\ ret = "list" =>
              LET kept == Cardinality(Kept(results))
              IN  \A y \in CandidateSchedules(Len(data.COURSES)) :
                      Cardinality(Kept(y)) > kept =>
                          ~(RespectsLocks(y) /\ SatisfiesHardConstraints(y))
        /\ Solutions(data, schedule, temporary_constraints) # {} => ret = "list"

\* a lock moves one course off its prior assignment and the other one stays
C6_Witness ==
    /\ Finished /\ ret = "list"
    /\ Len(previous_schedule) = 2 /\ SatisfiesHardConstraints(previous_schedule)
    /\ ~RespectsLocks(previous_schedule)
    /\ Cardinality(Kept(results)) = 1

\* the data without the records of one student
WithoutStudent(d, student_id) ==
    [d EXCEPT !.STUDENT_ELECTIONS =
        SelectSeq(d.STUDENT_ELECTIONS, LAMBDA e : e.student_id # student_id)]

\* C10: dropping all records of a student whose records name at most one
\* course leaves the set of accepted assignments unchanged.
C10_SingleCourseStudent ==
    pc = "solve" =>
        \A s \in StudentSet :
            Cardinality({e.course_id : e \in {r \in Range(data.STUDENT_ELECTIONS) :
                                                r.student_id = s}}) <= 1
            => Solutions(data, schedule, temporary_constraints)
               = Solutions(WithoutStudent(data, s), schedule, temporary_constraints)

(***************************************************************************)
(* Properties of the request handler.                                      *)
(***************************************************************************)
Weekdays == <<"Mon", "Tue", "Wed", "Thu", "Fri">>

IsWeekday(day) == \E n \in DOMAIN Weekdays : Weekdays[n] = day

DayIndex(day) == (CHOOSE n \in DOMAIN Weekdays : Weekdays[n] = day) - 1

\* how many rows of the same day come before row i
RankInDay(rows, i) ==
    Cardinality({j \in 1..(i - 1) : rows[j].day_of_week = rows[i].day_of_week})

\* C8: the k-th row of weekday D maps to <<D, k>>, rows of other days get no
\* coordinate and use none up, and the map is one-to-one onto ALL_TIMESLOTS,
\* so that the reverse map gives back every raw id.
C8_TimeslotIndex ==
    pc # "request" =>
        LET rows == db.timeslot
            map  == TIMESLOT_ID_MAP.val
        IN  /\ \A i \in DOMAIN rows :
                  IF IsWeekday(rows[i].day_of_week)
                  THEN /\ rows[i].id \in DOMAIN map
                       /\ map[rows[i].id] =
                             <<DayIndex(rows[i].day_of_week), RankInDay(rows, i)>>
                  ELSE rows[i].id \notin DOMAIN map
            /\ \A a, b \in DOMAIN map : a # b => map[a] # map[b]
            /\ {map[a] : a \in DOMAIN map} = Range(data.ALL_TIMESLOTS)
            /\ Len(data.ALL_TIMESLOTS) = Cardinality(DOMAIN map)
            /\ \A a \in DOMAIN map :
                  reverse_timeslot_map(TIMESLOT_ID_MAP)[map[a]] = a

\* a skipped weekend row, then two rows of one weekday
C8_Witness ==
    /\ pc # "request"
    /\ Len(db.timeslot) = 3
    /\ ~IsWeekday(db.timeslot[1].day_of_week)
    /\ db.timeslot[2].day_of_week = db.timeslot[3].day_of_week
    /\ TIMESLOT_ID_MAP.val[db.timeslot[3].id][2] = 1

\* C9: when the request succeeds, every entry of the schedule has its row in
\* the timetable, with the raw id of the entry's timeslot.
C9_NoSilentDrop ==
    response = 200 =>
        \A i \in DOMAIN results :
            \E j \in DOMAIN timetable :
                /\ timetable[j].course_id = results[i].course.id
                /\ timetable[j].faculty_id = results[i].faculty.id
                /\ timetable[j].room_id = results[i].room.id
                /\ timetable[j].timeslot_id \in DOMAIN TIMESLOT_ID_MAP.val
                /\ TIMESLOT_ID_MAP.val[timetable[j].timeslot_id] = Timeslot(results[i])

====
